---- MODULE Spec2Model ----
(***************************************************************************)
(* A model of woo-mcp-server (src/server.js): the local-bridge WebSocket   *)
(* link with its per-call reply listeners and timers, and the MCP session  *)
(* map served by the POST / GET / DELETE /mcp routes.                      *)
(*                                                                         *)
(* Node runs one handler at a time, so each action below is one event-loop *)
(* task: a handler from its entry to its first await (or its end), or the  *)
(* continuation after an await.                                            *)
(***************************************************************************)
EXTENDS Integers, Sequences, FiniteSets, TLC

\* ----- bounds of the model -----
MaxConn == 2        \* WebSocket connections made to /bridge
MaxCalls == 2       \* local_bridge tool invocations
MaxTrans == 2       \* session transports constructed
MaxReqs == 3        \* HTTP requests made to /mcp

\* ----- program constants -----
BRIDGE_KEY == "woo-local-2026"
InvalidKeyCode == 4001
OPEN == 1
CONNECTING == OPEN - 1
CLOSING == OPEN + 1
CLOSED == OPEN + 2

NULL == 0           \* localBridge = null: no handle (handles are 1..MaxConn)
UNDEF == "undefined"

Handles == 1..MaxConn
Calls == 1..MaxCalls

\* Values a remote reply can carry in its result / error field: absent,
\* a falsy value (the empty string) and a truthy one.
Payloads == {UNDEF, "", "data"}
Truthy(v) == v # UNDEF /\ v # ""

\* Frames the remote end can write on a connection: bytes that are not JSON,
\* the registration handshake, and replies {id, result} / {id, error}.
\* Ids: 0 is never issued (the clock starts at 1), 1..MaxCalls can be.
MsgIds == 0..MaxCalls
\* {id, result: r} with r falsy or truthy, and {id, error: e}.
Bodies == {<<"", UNDEF>>, <<"data", UNDEF>>, <<UNDEF, "data">>}
Frames ==
    {[kind |-> "garbage", id |-> 0, result |-> UNDEF, error |-> UNDEF],
     [kind |-> "register", id |-> 0, result |-> UNDEF, error |-> UNDEF]}
    \cup {[kind |-> "reply", id |-> i, result |-> b[1], error |-> b[2]] :
            i \in MsgIds, b \in Bodies}
Keys == {BRIDGE_KEY, "wrong-key", UNDEF}

Transports == 1..MaxTrans
Reqs == 1..MaxReqs
\* Session ids: transport t's generator call returns the fresh id t
\* (crypto.randomUUID() never repeats); 0 stands for "no id".
Sids == 1..MaxTrans
\* A mcp-session-id header value that no transport was ever given.
BogusSid == MaxTrans + 1
NoReq == [method |-> "none", header |-> 0, init |-> FALSE, pc |-> "none",
          t |-> 0, status |-> 0]

VARIABLES
    localBridge,    \* the current link: a handle or NULL
    nconn,          \* connections made so far: handle k is the k-th one
    accepted,       \* handle -> its key matched, its listeners were installed
    readyState,     \* handle -> ws.readyState
    closeCode,      \* handle -> code the server closed it with (0: none)
    listeners,      \* handle -> calls whose reply handler is on its "message"
    sent,           \* handle -> calls whose request was written to it, in order
    now,            \* Date.now()
    ncalls,         \* local_bridge invocations so far: call k is the k-th one
    reqId,          \* call -> its correlation id
    reqWs,          \* call -> the handle its handler was registered on
    timer,          \* call -> "none" | "armed" | "fired" | "cleared"
    outcome,        \* call -> "none" | "unavailable" | "pending" | "resolved" | "timeout"
    value,          \* call -> the value its promise was resolved with
    replyId,        \* call -> the id of the frame it was resolved with (-1: none)
    staleClose,     \* some accepted handle's "close" fired under a newer link
    crashed,        \* "none", or the exception that left a handler uncaught
    sessions,       \* the sessions Map: session id -> transport (0: no entry)
    ntrans,         \* transports constructed so far
    tSessionId,     \* transport -> transport.sessionId (0: undefined)
    tOnclose,       \* transport -> the route's onclose callback is installed
    tClosed,        \* transport -> close() has run: closure was signalled
    tRegAtClose,    \* transport -> the map held its entry when close() was called
    nreqs,          \* requests received so far
    req             \* request -> its method, header, position and transport

bridgeVars == <<localBridge, nconn, accepted, readyState, closeCode, listeners,
                sent, now, ncalls, reqId, reqWs, timer, outcome, value, replyId,
                staleClose, crashed>>

sessVars == <<sessions, ntrans, tSessionId, tOnclose, tClosed, tRegAtClose,
              nreqs, req>>

vars == <<bridgeVars, sessVars>>

BridgeInit ==
    /\ localBridge = NULL
    /\ nconn = 0
    /\ accepted = [h \in Handles |-> FALSE]
    /\ readyState = [h \in Handles |-> CONNECTING]
    /\ closeCode = [h \in Handles |-> 0]
    /\ listeners = [h \in Handles |-> {}]
    /\ sent = [h \in Handles |-> <<>>]
    /\ now = 1
    /\ ncalls = 0
    /\ reqId = [c \in Calls |-> 0]
    /\ reqWs = [c \in Calls |-> NULL]
    /\ timer = [c \in Calls |-> "none"]
    /\ outcome = [c \in Calls |-> "none"]
    /\ value = [c \in Calls |-> UNDEF]
    /\ replyId = [c \in Calls |-> -1]
    /\ staleClose = FALSE
    /\ crashed = "none"

SessInit ==
    /\ sessions = [s \in Sids |-> 0]
    /\ ntrans = 0
    /\ tSessionId = [t \in Transports |-> 0]
    /\ tOnclose = [t \in Transports |-> FALSE]
    /\ tClosed = [t \in Transports |-> FALSE]
    /\ tRegAtClose = [t \in Transports |-> FALSE]
    /\ nreqs = 0
    /\ req = [r \in Reqs |-> NoReq]

Init == BridgeInit /\ SessInit

\* ----- helpers translated from the handlers -----

\* if (!localBridge || localBridge.readyState !== 1) return unavailable
IsLiveKeyOnly == localBridge # NULL
IsLive == localBridge # NULL /\ readyState[localBridge] = OPEN

\* const id = Date.now()
DateNow == now

\* ws.on("close"): if (localBridge === ws) localBridge = null
CloseLinkNoCheck(ws) == NULL
CloseLink(ws) == IF localBridge = ws THEN NULL ELSE localBridge

\* if (msg.id === id): a frame without an id field never matches
IdMatchesAny(m, id) == m.kind = "reply"
IdMatches(m, id) == m.kind = "reply" /\ m.id = id

\* resolve(msg.result || msg.error)
OrElse(a, b) == IF Truthy(a) THEN a ELSE b
ReplyValue(m) == OrElse(m.result, m.error)

\* A promise settles once: resolve / reject on a settled promise do nothing.
PromiseSettleAlways(c, o) == o
PromiseSettle(c, o) == IF outcome[c] = "pending" THEN o ELSE outcome[c]
PromiseValue(c, v) == IF outcome[c] = "pending" THEN v ELSE value[c]
PromiseReply(c, m) == IF outcome[c] = "pending" THEN m.id ELSE replyId[c]

\* clearTimeout(timeout): cancels a timer that has not fired yet
ClearTimeout(c) == IF timer[c] = "armed" THEN "cleared" ELSE timer[c]

\* Per-call handlers that hear the frames of every connection, whichever
\* handle they were registered on.
MatchingAnyHandle(ws, m) ==
    {c \in UNION {listeners[h] : h \in Handles} : IdMatches(m, reqId[c])}

\* The per-call handlers on ws that a frame matches.
Matching(ws, m) == {c \in listeners[ws] : IdMatches(m, reqId[c])}

\* ----- actions of the bridge -----

\* wss.on("connection") without the return after ws.close(4001, ...): the
\* rejected handle is closed and then attached all the same.
ConnectionNoReturn(key) ==
    /\ crashed = "none"
    /\ nconn < MaxConn
    /\ LET ws == nconn + 1 IN
       /\ nconn' = ws
       /\ readyState' = [readyState EXCEPT ![ws] =
                           IF key # BRIDGE_KEY THEN CLOSING ELSE OPEN]
       /\ closeCode' = [closeCode EXCEPT ![ws] =
                          IF key # BRIDGE_KEY THEN InvalidKeyCode ELSE 0]
       /\ accepted' = [accepted EXCEPT ![ws] = TRUE]
       /\ localBridge' = ws
    /\ UNCHANGED <<listeners, sent, now, ncalls, reqId, reqWs, timer, outcome,
                   value, replyId, staleClose, crashed>>
    /\ UNCHANGED sessVars

\* wss.on("connection") attaching only when no link is held:
\* if (!localBridge) localBridge = ws.
ConnectionKeepsOld(key) ==
    /\ crashed = "none"
    /\ nconn < MaxConn
    /\ LET ws == nconn + 1 IN
       /\ nconn' = ws
       /\ IF key # BRIDGE_KEY
          THEN /\ readyState' = [readyState EXCEPT ![ws] = CLOSING]
               /\ closeCode' = [closeCode EXCEPT ![ws] = InvalidKeyCode]
               /\ UNCHANGED <<localBridge, accepted>>
          ELSE /\ readyState' = [readyState EXCEPT ![ws] = OPEN]
               /\ accepted' = [accepted EXCEPT ![ws] = TRUE]
               /\ localBridge' = IF localBridge = NULL THEN ws ELSE localBridge
               /\ UNCHANGED closeCode
    /\ UNCHANGED <<listeners, sent, now, ncalls, reqId, reqWs, timer, outcome,
                   value, replyId, staleClose, crashed>>
    /\ UNCHANGED sessVars

\* wss.on("connection")
Connection(key) ==
    /\ crashed = "none"
    /\ nconn < MaxConn
    /\ LET ws == nconn + 1 IN
       /\ nconn' = ws
       /\ IF key # BRIDGE_KEY
          THEN /\ readyState' = [readyState EXCEPT ![ws] = CLOSING]
               /\ closeCode' = [closeCode EXCEPT ![ws] = InvalidKeyCode]
               /\ UNCHANGED <<localBridge, accepted>>
          ELSE /\ readyState' = [readyState EXCEPT ![ws] = OPEN]
               /\ accepted' = [accepted EXCEPT ![ws] = TRUE]
               /\ localBridge' = ws
               /\ UNCHANGED closeCode
    /\ UNCHANGED <<listeners, sent, now, ncalls, reqId, reqWs, timer, outcome,
                   value, replyId, staleClose, crashed>>
    /\ UNCHANGED sessVars

\* The peer's close frame arrives on an open handle: ws moves to CLOSING
\* before its "close" event is emitted.
PeerClosing(ws) ==
    /\ crashed = "none"
    /\ ws \in 1..nconn
    /\ readyState[ws] = OPEN
    /\ readyState' = [readyState EXCEPT ![ws] = CLOSING]
    /\ UNCHANGED <<localBridge, nconn, accepted, closeCode, listeners, sent, now,
                   ncalls, reqId, reqWs, timer, outcome, value, replyId,
                   staleClose, crashed>>
    /\ UNCHANGED sessVars

\* ws emits "close": ws.on("close") runs if the connection was accepted.
CloseEvent(ws) ==
    /\ crashed = "none"
    /\ ws \in 1..nconn
    /\ readyState[ws] \in {OPEN, CLOSING}
    /\ readyState' = [readyState EXCEPT ![ws] = CLOSED]
    /\ localBridge' = IF accepted[ws] THEN CloseLink(ws) ELSE localBridge
    /\ staleClose' = (staleClose \/ (accepted[ws] /\ localBridge \notin {ws, NULL}))
    /\ UNCHANGED <<nconn, accepted, closeCode, listeners, sent, now, ncalls,
                   reqId, reqWs, timer, outcome, value, replyId, crashed>>
    /\ UNCHANGED sessVars

\* The millisecond clock advances.  Readings are only ever compared with the
\* ids taken from them, so a reading no call has used is indistinguishable
\* from the next one: the clock is stepped only past readings that were used.
Tick ==
    /\ crashed = "none"
    /\ \E c \in 1..ncalls : reqId[c] = now
    /\ now' = now + 1
    /\ UNCHANGED <<localBridge, nconn, accepted, readyState, closeCode, listeners,
                   sent, ncalls, reqId, reqWs, timer, outcome, value, replyId,
                   staleClose, crashed>>
    /\ UNCHANGED sessVars

\* The local_bridge tool handler, up to its await.
Invoke ==
    /\ crashed = "none"
    /\ ncalls < MaxCalls
    /\ LET c == ncalls + 1 IN
       /\ ncalls' = c
       /\ IF ~IsLive
          THEN /\ outcome' = [outcome EXCEPT ![c] = "unavailable"]
               /\ UNCHANGED <<listeners, sent, reqId, reqWs, timer>>
          ELSE /\ reqId' = [reqId EXCEPT ![c] = DateNow]
               /\ reqWs' = [reqWs EXCEPT ![c] = localBridge]
               /\ timer' = [timer EXCEPT ![c] = "armed"]
               /\ listeners' = [listeners EXCEPT ![localBridge] = @ \cup {c}]
               /\ sent' = [sent EXCEPT ![localBridge] = Append(@, c)]
               /\ outcome' = [outcome EXCEPT ![c] = "pending"]
    /\ UNCHANGED <<localBridge, nconn, accepted, readyState, closeCode, now, value,
                   replyId, staleClose, crashed>>
    /\ UNCHANGED sessVars

\* setTimeout(() => reject(new Error(...)), 15000): fires after the clock has
\* moved past the reading taken as the call's id.
TimerFire(c) ==
    /\ crashed = "none"
    /\ c \in 1..ncalls
    /\ timer[c] = "armed"
    /\ now > reqId[c]
    /\ timer' = [timer EXCEPT ![c] = "fired"]
    /\ outcome' = [outcome EXCEPT ![c] = PromiseSettle(c, "timeout")]
    /\ UNCHANGED <<localBridge, nconn, accepted, readyState, closeCode, listeners,
                   sent, now, ncalls, reqId, reqWs, value, replyId, staleClose,
                   crashed>>
    /\ UNCHANGED sessVars

\* ws emits "message" with frame m: the connection's own listener runs first
\* (JSON.parse, the register log line), then every per-call handler registered
\* on ws, in registration order.  A handler that throws ends the emit and the
\* exception is uncaught.  Handlers that do not match do nothing, so the first
\* one to act is the first matching one; with localBridge null it throws on
\* localBridge.removeListener before clearing its timer or resolving.
Deliver(ws, m) ==
    /\ crashed = "none"
    /\ ws \in 1..nconn
    /\ \/ readyState[ws] = OPEN
       \/ ~accepted[ws] /\ readyState[ws] = CLOSING
    /\ IF ~accepted[ws]
       THEN UNCHANGED bridgeVars
       ELSE IF m.kind = "garbage"
       THEN /\ crashed' = "SyntaxError"
            /\ UNCHANGED <<localBridge, nconn, accepted, readyState, closeCode,
                           listeners, sent, now, ncalls, reqId, reqWs, timer,
                           outcome, value, replyId, staleClose>>
       ELSE IF Matching(ws, m) = {}
       THEN UNCHANGED bridgeVars
       ELSE IF localBridge = NULL
       THEN /\ crashed' = "TypeError"
            /\ UNCHANGED <<localBridge, nconn, accepted, readyState, closeCode,
                           listeners, sent, now, ncalls, reqId, reqWs, timer,
                           outcome, value, replyId, staleClose>>
       ELSE LET hit == Matching(ws, m) IN
            /\ listeners' = [listeners EXCEPT ![localBridge] = @ \ hit]
            /\ timer' = [c \in Calls |-> IF c \in hit THEN ClearTimeout(c)
                                                      ELSE timer[c]]
            /\ outcome' = [c \in Calls |->
                             IF c \in hit THEN PromiseSettle(c, "resolved")
                                          ELSE outcome[c]]
            /\ value' = [c \in Calls |->
                           IF c \in hit THEN PromiseValue(c, ReplyValue(m))
                                        ELSE value[c]]
            /\ replyId' = [c \in Calls |->
                             IF c \in hit THEN PromiseReply(c, m)
                                          ELSE replyId[c]]
            /\ UNCHANGED <<localBridge, nconn, accepted, readyState, closeCode,
                           sent, now, ncalls, reqId, reqWs, staleClose, crashed>>
    /\ UNCHANGED sessVars

Next ==
    \/ \E key \in Keys : Connection(key)
    \/ \E ws \in Handles : PeerClosing(ws)
    \/ \E ws \in Handles : CloseEvent(ws)
    \/ Tick
    \/ Invoke
    \/ \E c \in Calls : TimerFire(c)
    \/ \E ws \in Handles, m \in Frames : Deliver(ws, m)

Spec == Init /\ [][Next]_vars

\* ----- the session map and the /mcp routes -----

\* A header value a client can send: none, a made-up one, or an id that some
\* transport was given (the client learned it from a response).
Headers == {0, BogusSid} \cup {tSessionId[t] : t \in 1..ntrans} 

\* sessionId && sessions.has(sessionId)
Has(h) == h \in Sids /\ sessions[h] # 0

\* A closure callback that empties the map: sessions.clear().
OnCloseClear(t) ==
    IF tOnclose[t] /\ tSessionId[t] # 0
    THEN [s \in Sids |-> 0]
    ELSE sessions

\* transport.onclose = () => { const sid = transport.sessionId;
\*                             if (sid) sessions.delete(sid); }
OnClose(t) ==
    IF tOnclose[t] /\ tSessionId[t] # 0
    THEN [sessions EXCEPT ![tSessionId[t]] = 0]
    ELSE sessions

\* app.post("/mcp"), up to its first await: an existing transport is looked
\* up and handleRequest called, or a new one is constructed and
\* server.connect(transport) awaited.
PostStart(h, init) ==
    /\ nreqs < MaxReqs
    /\ h \in Headers
    /\ LET r == nreqs + 1 IN
       /\ nreqs' = r
       /\ IF Has(h)
          THEN /\ req' = [req EXCEPT ![r] = [method |-> "POST", header |-> h,
                            init |-> init, pc |-> "handle", t |-> sessions[h],
                            status |-> 0]]
               /\ UNCHANGED ntrans
          ELSE /\ ntrans < MaxTrans
               /\ ntrans' = ntrans + 1
               /\ req' = [req EXCEPT ![r] = [method |-> "POST", header |-> h,
                            init |-> init, pc |-> "connect", t |-> ntrans + 1,
                            status |-> 0]]
    /\ UNCHANGED <<sessions, tSessionId, tOnclose, tClosed, tRegAtClose>>
    /\ UNCHANGED bridgeVars

\* app.post after await server.connect(transport): installs onclose and
\* calls transport.handleRequest.
PostConnected(r) ==
    /\ r \in 1..nreqs
    /\ req[r].pc = "connect"
    /\ tOnclose' = [tOnclose EXCEPT ![req[r].t] = TRUE]
    /\ req' = [req EXCEPT ![r].pc = "handle"]
    /\ UNCHANGED <<sessions, ntrans, tSessionId, tClosed, tRegAtClose, nreqs>>
    /\ UNCHANGED bridgeVars

\* The transport serves the request while the route is suspended in
\* await transport.handleRequest.  Serving an initialize POST on a transport
\* that has no session id yet assigns it one from sessionIdGenerator; nothing
\* else changes transport.sessionId.  For a GET the route has nothing left to
\* do afterwards.
TransportHandled(r) ==
    /\ r \in 1..nreqs
    /\ req[r].pc = "handle"
    /\ LET t == req[r].t IN
       tSessionId' = IF req[r].method = "POST" /\ req[r].init /\ tSessionId[t] = 0
                     THEN [tSessionId EXCEPT ![t] = t]
                     ELSE tSessionId
    /\ req' = [req EXCEPT ![r].pc = IF req[r].method = "POST" THEN "handled"
                                                                ELSE "done"]
    /\ UNCHANGED <<sessions, ntrans, tOnclose, tClosed, tRegAtClose, nreqs>>
    /\ UNCHANGED bridgeVars

\* app.post after await transport.handleRequest:
\* if (transport.sessionId && !sessions.has(transport.sessionId))
\*   sessions.set(transport.sessionId, transport)
PostResume(r) ==
    /\ r \in 1..nreqs
    /\ req[r].method = "POST"
    /\ req[r].pc = "handled"
    /\ LET t == req[r].t
           sid == tSessionId[t] IN
       sessions' = IF sid # 0 /\ ~Has(sid)
                   THEN [sessions EXCEPT ![sid] = t]
                   ELSE sessions
    /\ req' = [req EXCEPT ![r].pc = "done"]
    /\ UNCHANGED <<ntrans, tSessionId, tOnclose, tClosed, tRegAtClose, nreqs>>
    /\ UNCHANGED bridgeVars

\* app.get("/mcp"): if (!sessionId || !sessions.has(sessionId)) -> 400
GetNotFound(h) == ~Has(h)

\* app.get("/mcp") answering an unknown session as app.post does: by
\* constructing a transport for it.
GetStartCreates(h) ==
    /\ nreqs < MaxReqs
    /\ h \in Headers
    /\ LET r == nreqs + 1 IN
       /\ nreqs' = r
       /\ IF GetNotFound(h)
          THEN /\ ntrans < MaxTrans
               /\ ntrans' = ntrans + 1
               /\ req' = [req EXCEPT ![r] = [method |-> "GET", header |-> h,
                            init |-> FALSE, pc |-> "handle", t |-> ntrans + 1,
                            status |-> 0]]
          ELSE /\ req' = [req EXCEPT ![r] = [method |-> "GET", header |-> h,
                            init |-> FALSE, pc |-> "handle", t |-> sessions[h],
                            status |-> 0]]
               /\ UNCHANGED ntrans
    /\ UNCHANGED <<sessions, tSessionId, tOnclose, tClosed, tRegAtClose>>
    /\ UNCHANGED bridgeVars

\* app.get("/mcp"): 400 without a known session, else handleRequest.
GetStart(h) ==
    /\ nreqs < MaxReqs
    /\ h \in Headers
    /\ LET r == nreqs + 1 IN
       /\ nreqs' = r
       /\ req' = [req EXCEPT ![r] =
                    IF GetNotFound(h)
                    THEN [method |-> "GET", header |-> h, init |-> FALSE,
                          pc |-> "done", t |-> 0, status |-> 400]
                    ELSE [method |-> "GET", header |-> h, init |-> FALSE,
                          pc |-> "handle", t |-> sessions[h], status |-> 0]]
    /\ UNCHANGED <<sessions, ntrans, tSessionId, tOnclose, tClosed, tRegAtClose>>
    /\ UNCHANGED bridgeVars

\* app.delete("/mcp"), up to its await: transport.close() runs its
\* synchronous part, which signals closure through onclose.  This route is
\* the only caller of transport.close().
DeleteStart(h) ==
    /\ nreqs < MaxReqs
    /\ h \in Headers
    /\ LET r == nreqs + 1 IN
       /\ nreqs' = r
       /\ IF Has(h)
          THEN LET t == sessions[h] IN
               /\ tRegAtClose' = [tRegAtClose EXCEPT ![t] = (sessions[h] = t)]
               /\ tClosed' = [tClosed EXCEPT ![t] = TRUE]
               /\ sessions' = OnClose(t)
               /\ req' = [req EXCEPT ![r] = [method |-> "DELETE", header |-> h,
                            init |-> FALSE, pc |-> "closing", t |-> t,
                            status |-> 0]]
          ELSE /\ req' = [req EXCEPT ![r] = [method |-> "DELETE", header |-> h,
                            init |-> FALSE, pc |-> "done", t |-> 0,
                            status |-> 200]]
               /\ UNCHANGED <<sessions, tClosed, tRegAtClose>>
    /\ UNCHANGED <<ntrans, tSessionId, tOnclose>>
    /\ UNCHANGED bridgeVars

\* app.delete after await transport.close(): sessions.delete(sessionId),
\* then res.status(200).
DeleteResume(r) ==
    /\ r \in 1..nreqs
    /\ req[r].pc = "closing"
    /\ sessions' = [sessions EXCEPT ![req[r].header] = 0]
    /\ req' = [req EXCEPT ![r].pc = "done", ![r].status = 200]
    /\ UNCHANGED <<ntrans, tSessionId, tOnclose, tClosed, tRegAtClose, nreqs>>
    /\ UNCHANGED bridgeVars

SessNext ==
    \/ \E h \in 0..BogusSid, init \in BOOLEAN : PostStart(h, init)
    \/ \E r \in Reqs : PostConnected(r)
    \/ \E r \in Reqs : TransportHandled(r)
    \/ \E r \in Reqs : PostResume(r)
    \/ \E h \in 0..BogusSid : GetStart(h)
    \/ \E h \in 0..BogusSid : DeleteStart(h)
    \/ \E r \in Reqs : DeleteResume(r)

SessSpec == Init /\ [][SessNext]_vars

\* Timers fire once their delay has elapsed and time passes: the event loop
\* runs every due timer unless the process has terminated.
FairSpec == Spec /\ WF_vars(Tick) /\ \A c \in Calls : WF_vars(TimerFire(c))

\* ----- claims about the bridge -----

Settled(c) == outcome[c] \in {"unavailable", "resolved", "timeout"}

\* C1: when the "close" event of an accepted connection fires, the current
\* link is cleared if it is that connection and is left as it is otherwise,
\* so the close of a superseded connection A leaves the link on B.
C1_StaleDisconnectSafe ==
    [][\A a \in Handles :
         (accepted[a] /\ readyState[a] # CLOSED /\ readyState'[a] = CLOSED)
         => localBridge' = (IF localBridge = a THEN NULL ELSE localBridge)]_vars

\* A was attached, then B, then A's close fired, and the link is B.
C1_Witness ==
    \E a, b \in Handles :
        /\ a < b /\ accepted[a] /\ accepted[b]
        /\ staleClose /\ readyState[a] = CLOSED
        /\ readyState[b] = OPEN /\ localBridge = b

\* C2: an invocation made while there is no link, or while the attached
\* handle is not open, is answered with the bridge-unavailable error in the
\* same step; no listener is registered, no timer started, nothing written,
\* and the link and every earlier call are as they were.
C2_UnavailableImmediately ==
    [][(ncalls' = ncalls + 1
        /\ (localBridge = NULL \/ readyState[localBridge] # OPEN))
       => /\ outcome'[ncalls'] = "unavailable"
          /\ timer'[ncalls'] = "none"
          /\ listeners' = listeners
          /\ sent' = sent
          /\ localBridge' = localBridge
          /\ \A c \in 1..ncalls :
               /\ outcome'[c] = outcome[c]
               /\ timer'[c] = timer[c]
               /\ value'[c] = value[c]]_vars

\* Call 1 is pending on the attached handle, which has since started closing;
\* call 2 was made then and got the unavailable error.
C2_Witness ==
    /\ ncalls = 2
    /\ outcome[1] = "pending" /\ timer[1] = "armed"
    /\ localBridge # NULL /\ reqWs[1] = localBridge
    /\ readyState[localBridge] = CLOSING
    /\ outcome[2] = "unavailable"

\* C3: a call that has an outcome keeps it, and the value it was resolved
\* with, in every later step: later replies with its id, its timer and
\* changes of the link do not settle it again.
C3_SettledOnce ==
    [][\A c \in Calls :
         Settled(c) => (outcome'[c] = outcome[c] /\ value'[c] = value[c])]_vars

\* A call that timed out and whose handler has since run on a late reply
\* (only the handler takes the listener off the handle): it is still timed out.
C3_Witness ==
    \E c \in 1..ncalls :
        /\ outcome[c] = "timeout"
        /\ c \notin listeners[reqWs[c]]

\* C4: every call that passed the liveness check eventually gets its result
\* (the reply or the timeout error), whatever replies arrive and however the
\* link is replaced or closed.  (A crash on bytes that are not JSON is left
\* out here: C9 is about it.)
C4_EventuallyReturns ==
    \A c \in Calls :
        (outcome[c] = "pending")
        ~> (outcome[c] \in {"resolved", "timeout"} \/ crashed = "SyntaxError")

\* C5: a call rejected by its timer has no reply listener left on any handle.
C5_TimeoutRemovesEntry ==
    \A c \in 1..ncalls :
        outcome[c] = "timeout" => \A h \in Handles : c \notin listeners[h]

\* C6: once every issued call has settled, no reply listener is registered
\* on any connection handle.
C6_NoEntryOnceAllSettled ==
    (ncalls > 0 /\ \A c \in 1..ncalls : Settled(c))
    => \A h \in Handles : listeners[h] = {}

\* C7: no two calls that are pending at the same time have the same id.
C7_LiveIdsDistinct ==
    \A c, d \in 1..ncalls :
        (c # d /\ outcome[c] = "pending" /\ outcome[d] = "pending")
        => reqId[c] # reqId[d]

\* C8: a resolved call was resolved by the handling of a frame that bears
\* the call's own id, never by a frame bearing another id.
C8_ResolvedByOwnReply ==
    \A c \in 1..ncalls :
        outcome[c] = "resolved" => replyId[c] = reqId[c]

\* Two calls with different ids were pending on one handle; the reply to the
\* later one came first and resolved it, the earlier one is still pending.
C8_Witness ==
    /\ ncalls = 2
    /\ reqWs[1] = reqWs[2] /\ reqId[1] # reqId[2]
    /\ outcome[1] = "pending"
    /\ outcome[2] = "resolved" /\ value[2] = "data"

\* C9: a frame that is not JSON, or a reply whose id is the id of no pending
\* call, settles nothing and raises nothing; calls, timers and the link stay
\* as they are.
C9_ForeignFrameDropped ==
    [][\A ws \in Handles, m \in Frames :
         (/\ Deliver(ws, m)
          /\ \/ m.kind = "garbage"
             \/ /\ m.kind = "reply"
                /\ \A c \in 1..ncalls :
                     outcome[c] = "pending" => reqId[c] # m.id)
         => UNCHANGED <<outcome, value, timer, localBridge, crashed>>]_vars

\* ----- claims about the session map -----

\* C10: every entry of the sessions map holds a transport that has not
\* signalled closure.
C10_MapHoldsOpenTransports ==
    \A s \in Sids : sessions[s] # 0 => ~tClosed[sessions[s]]

\* C11: session round trip.  An initialize POST without a session id ends
\* with its new transport registered under the id S it was given; a request
\* carrying a registered S gets that transport and constructs none; once the
\* transport of S has signalled closure, a GET carrying S is answered
\* session-not-found.
C11_SessionRoundTrip ==
    [][/\ \A r \in 1..nreqs :
            (/\ req[r].method = "POST" /\ req[r].header = 0 /\ req[r].init
             /\ req[r].pc = "handled" /\ req'[r].pc = "done")
            => /\ tSessionId[req[r].t] # 0
               /\ sessions'[tSessionId[req[r].t]] = req[r].t
       /\ (/\ nreqs' = nreqs + 1
           /\ req'[nreqs'].header \in Sids
           /\ sessions[req'[nreqs'].header] # 0)
          => /\ ntrans' = ntrans
             /\ req'[nreqs'].t = sessions[req'[nreqs'].header]
       /\ \A t \in 1..ntrans :
            (tClosed'[t] /\ tSessionId'[t] # 0) => GetNotFound(tSessionId[t])'
      ]_vars

\* C12: a request that carries the id of a session whose transport has
\* signalled closure constructs no transport, and on GET and POST is answered
\* session-not-found.
C12_ClosedSessionNotRecreated ==
    [][(/\ nreqs' = nreqs + 1
        /\ \E t \in 1..ntrans :
             tSessionId[t] = req'[nreqs'].header /\ tClosed[t])
       => /\ ntrans' = ntrans
          /\ req'[nreqs'].method # "DELETE"
             => (req'[nreqs'].pc = "done" /\ req'[nreqs'].status = 400)]_vars

\* C13: a connection that presents a key other than the bridge key is closed
\* with code 4001 and changes neither the link nor any call; a handle closed
\* with 4001 is never the current link, no frame arriving on it has any
\* effect, and its close event leaves the link as it is.
C13_RejectedConnectionInert ==
    [][/\ \A key \in Keys :
            (key # BRIDGE_KEY /\ Connection(key))
            => /\ closeCode'[nconn'] = InvalidKeyCode
               /\ readyState'[nconn'] = CLOSING
               /\ UNCHANGED <<localBridge, listeners, sent, timer, outcome,
                              value>>
       /\ \A h \in Handles :
            closeCode'[h] = InvalidKeyCode
            => /\ localBridge' # h
               /\ \A m \in Frames : Deliver(h, m) => UNCHANGED bridgeVars
               /\ (readyState[h] # CLOSED /\ readyState'[h] = CLOSED)
                  => localBridge' = localBridge
      ]_vars

\* A call is pending on the link; a second connection was rejected and its
\* close event has fired; the link is still the first handle.
C13_Witness ==
    \E a, b \in Handles :
        /\ accepted[a] /\ localBridge = a /\ readyState[a] = OPEN
        /\ \E c \in 1..ncalls : outcome[c] = "pending" /\ reqWs[c] = a
        /\ closeCode[b] = InvalidKeyCode /\ readyState[b] = CLOSED

\* JSON.stringify(result, null, 2) on the values a reply can carry: a string
\* is written between double quotes, undefined gives undefined.
Stringify(v) == IF v = UNDEF THEN UNDEF ELSE "\"" \o v \o "\""

\* What the local_bridge handler returns to its caller for call c.
ToolResult(c) ==
    CASE outcome[c] = "unavailable" ->
             [isError |-> TRUE, text |-> "not connected"]
      [] outcome[c] = "resolved" ->
             [isError |-> FALSE, text |-> Stringify(value[c])]
      [] outcome[c] = "timeout" ->
             [isError |-> TRUE, text |-> "bridge error: timeout"]
      [] OTHER -> [isError |-> FALSE, text |-> UNDEF]

\* C14: the caller of a bridged call gets the remote payload unchanged with
\* its result/error distinction kept: a reply {id, result: r} resolves the
\* call to r as a success, and a reply {id, error: e} yields e in a form that
\* differs from what the success {id, result: e} yields.
C14_PayloadPassedThrough ==
    [][\A ws \in Handles, m \in Frames, c \in Calls :
          (/\ Deliver(ws, m)
           /\ outcome[c] = "pending" /\ outcome'[c] = "resolved")
          => /\ m.result # UNDEF
                => ToolResult(c)' = [isError |-> FALSE,
                                     text |-> Stringify(m.result)]
             /\ (m.result = UNDEF /\ m.error # UNDEF)
                => /\ value'[c] = m.error
                   /\ ToolResult(c)' # [isError |-> FALSE,
                                        text |-> Stringify(m.error)]
      ]_vars

\* C15: a call whose correlation id is already registered for a live pending
\* request is refused: it is not registered as pending, nothing is written
\* to the link, and the existing entry is left as it was.
C15_DuplicateIdRefused ==
    [][(/\ ncalls' = ncalls + 1
        /\ IsLive
        /\ \E c \in 1..ncalls : outcome[c] = "pending" /\ reqId[c] = DateNow)
       => /\ outcome'[ncalls'] # "pending"
          /\ listeners' = listeners
          /\ sent' = sent
          /\ \A c \in 1..ncalls : outcome'[c] = outcome[c]
      ]_vars

\* C16: a GET that carries no session id, or one that is not in the sessions
\* map, is answered 400 at once, constructs no transport and leaves the map
\* as it was.
C16_GetUnknownSession ==
    [][(/\ nreqs' = nreqs + 1
        /\ req'[nreqs'].method = "GET"
        /\ GetNotFound(req'[nreqs'].header))
       => /\ req'[nreqs'].status = 400
          /\ req'[nreqs'].pc = "done"
          /\ ntrans' = ntrans
          /\ UNCHANGED <<sessions, tSessionId, tOnclose, tClosed>>
      ]_vars

\* While a session is registered, one GET without a session id and one GET
\* with an id that is not in the map have both been answered 400.
C16_Witness ==
    /\ \E s \in Sids : sessions[s] # 0
    /\ \E r \in 1..nreqs :
         req[r].method = "GET" /\ req[r].header = 0 /\ req[r].status = 400
    /\ \E r \in 1..nreqs :
         req[r].method = "GET" /\ req[r].header # 0 /\ req[r].status = 400

\* C17: explicit removal.  When a DELETE carrying a registered session id S
\* completes, S is absent from the sessions map and its transport has been
\* closed, and the entry was taken out of the map before close() was called
\* on the transport; a DELETE carrying an unknown or missing id leaves the map
\* as it was and is answered 200.
C17_DeleteDeregistersThenCloses ==
    [][/\ \A r \in 1..nreqs :
            (req[r].method = "DELETE" /\ req[r].pc = "closing"
             /\ req'[r].pc = "done")
            => /\ sessions'[req[r].header] = 0
               /\ tClosed'[req[r].t]
               /\ ~tRegAtClose'[req[r].t]
               /\ req'[r].status = 200
       /\ (/\ nreqs' = nreqs + 1
           /\ req'[nreqs'].method = "DELETE"
           /\ ~Has(req'[nreqs'].header))
          => /\ sessions' = sessions
             /\ tClosed' = tClosed
             /\ req'[nreqs'].pc = "done"
             /\ req'[nreqs'].status = 200
      ]_vars

\* C18: an accepted connection becomes the current link whatever the link was
\* before; a request is written only by a call, to the handle that is the
\* current link and open at that moment, after everything written to that
\* handle earlier.
C18_SendsGoToCurrentLink ==
    [][/\ (nconn' = nconn + 1 /\ accepted'[nconn']) => localBridge' = nconn'
       /\ \A h \in Handles :
            sent'[h] # sent[h]
            => /\ h = localBridge
               /\ readyState[h] = OPEN
               /\ ncalls' = ncalls + 1
               /\ sent'[h] = Append(sent[h], ncalls')
      ]_vars

\* Handle 2 superseded handle 1 while handle 1 stayed open: the call made
\* before went to handle 1, the call made after went to handle 2.
C18_Witness ==
    /\ sent[1] = <<1>> /\ sent[2] = <<2>>
    /\ readyState[1] = OPEN /\ localBridge = 2

\* C19: on the step where a transport signals closure, every entry of the
\* sessions map that holds another transport stays as it is.
C19_ClosureRemovesOwnEntryOnly ==
    [][\A t \in Transports :
          (tClosed'[t] /\ ~tClosed[t])
          => \A s \in Sids :
               (sessions[s] # 0 /\ sessions[s] # t)
               => sessions'[s] = sessions[s]
      ]_vars

\* Two sessions were registered; the transport of one has signalled closure
\* and its entry is gone, the other is still registered.
C19_Witness ==
    \E t, u \in Transports :
        /\ t # u
        /\ tClosed[t] /\ tSessionId[t] # 0 /\ sessions[tSessionId[t]] = 0
        /\ ~tClosed[u] /\ tSessionId[u] # 0 /\ sessions[tSessionId[u]] = u

\* C20: a reply that matches a pending call, delivered on the handle the
\* call's handler is registered on, raises no exception, cancels the call's
\* timer and resolves the call; in particular the handler never runs while the
\* current link is empty.
C20_ReplyHandlerHasLink ==
    [][\A ws \in Handles, m \in Frames, c \in Calls :
          (/\ Deliver(ws, m)
           /\ accepted[ws] /\ m.kind # "garbage"
           /\ c \in Matching(ws, m) /\ outcome[c] = "pending")
          => /\ localBridge # NULL
             /\ crashed' = "none"
             /\ timer'[c] = "cleared"
             /\ outcome'[c] = "resolved"
      ]_vars

\* C21: a pending call is resolved only by a reply with its id arriving on
\* the handle its request was sent over.  A frame arriving on any other
\* handle, the new link included, leaves the call as it is; a reply with its
\* id arriving on its own handle after that handle was superseded by a new
\* link resolves it and cancels its timer.
C21_SettledOnOwnHandleOnly ==
    [][\A c \in Calls :
          outcome[c] = "pending"
          => /\ outcome'[c] = "resolved"
                => \E m \in Frames :
                     IdMatches(m, reqId[c]) /\ Deliver(reqWs[c], m)
             /\ (\/ outcome'[c] # outcome[c]
                 \/ timer'[c] # timer[c]
                 \/ value'[c] # value[c])
                => ~ \E ws \in Handles \ {reqWs[c]}, m \in Frames :
                       Deliver(ws, m)
             /\ \A m \in Frames :
                  (/\ localBridge \notin {NULL, reqWs[c]}
                   /\ IdMatches(m, reqId[c])
                   /\ Deliver(reqWs[c], m))
                  => /\ outcome'[c] = "resolved"
                     /\ timer'[c] = "cleared"
                     /\ value'[c] = ReplyValue(m)
      ]_vars

\* A call sent over handle 1 was resolved while handle 2 was the link: its
\* handler is still on handle 1, where it was registered.
C21_Witness ==
    \E c \in 1..ncalls :
        /\ reqWs[c] = 1 /\ outcome[c] = "resolved" /\ replyId[c] = reqId[c]
        /\ c \in listeners[1]
        /\ localBridge = 2 /\ readyState[2] = OPEN

====
